---- MODULE Spec2Model ----
(***************************************************************************)
(* Model of convert.py: the batch driver (main), the per-file policy       *)
(* (process_file), the path resolver (get_output_path), the file walker    *)
(* (find_images) and the effect of the two converters on the file system.  *)
(*                                                                         *)
(* File names are sequences of character codes (ASCII), a path is a        *)
(* sequence of names.  The raster codec and the SVG rasteriser are         *)
(* external: the model only chooses whether a conversion decodes, and      *)
(* whether the encoder fails after the output file has been opened.        *)
(***************************************************************************)
EXTENDS Integers, Sequences, FiniteSets, TLC

\* ------------------------------------------------------------------ bounds
MaxFiles == 2      \* source files present when the program is first started
MaxTime  == 1      \* last value of the file-system clock

\* --------------------------------------------------------------- characters
Lower(c) == IF c >= 65 /\ c <= 90 THEN c + 32 ELSE c

Upper(c) == IF c >= 97 /\ c <= 122 THEN c - 32 ELSE c

LowerStr(s) == [i \in 1..Len(s) |-> Lower(s[i])]

UpperStr(s) == [i \in 1..Len(s) |-> Upper(s[i])]

\* str < str, as Python compares strings
StrLess(a, b) ==
    \E k \in 1..(Len(a) + 1) :
        /\ k <= Len(b)
        /\ \A i \in 1..(k - 1) : a[i] = b[i]
        /\ (k = Len(a) + 1 \/ a[k] < b[k])

\* PurePath.__lt__ : the lists of path components are compared
PathLess(p, q) ==
    \E k \in 1..(Len(p) + 1) :
        /\ k <= Len(q)
        /\ \A i \in 1..(k - 1) : p[i] = q[i]
        /\ (k = Len(p) + 1 \/ StrLess(p[k], q[k]))

\* ------------------------------------------------------------------- names
In  == << <<105, 110>> >>                   \* the input directory  "in"
Sub == <<115, 117, 98>>                     \* a sub-directory name "sub"
Out == << <<111, 117, 116>> >>              \* the output directory "out"
None == << >>                               \* an option that was not given

TopNames ==
    { <<97, 46, 112, 110, 103>>,            \* a.png
      <<97, 46, 106, 112, 103>>,            \* a.jpg
      <<98, 46, 80, 78, 71>>,               \* b.PNG
      <<99, 46, 80, 110, 103>>,             \* c.Png
      <<46, 112, 110, 103>>,                \* .png
      <<100, 46, 116, 120, 116>>,           \* d.txt
      <<101, 46, 115, 118, 103>> }          \* e.svg

SubNames == { <<97, 46, 112, 110, 103>> }   \* sub/a.png

SrcUniverse ==
    { In \o <<n>> : n \in TopNames } \cup { In \o <<Sub, n>> : n \in SubNames }

\* the source trees of the runs that are repeated
RerunUniverse ==
    { In \o << <<97, 46, 112, 110, 103>> >>,            \* in/a.png
      In \o << <<97, 46, 106, 112, 103>> >>,            \* in/a.jpg
      In \o << Sub, <<97, 46, 112, 110, 103>> >> }      \* in/sub/a.png

\* files that are named on the command line instead of a directory
SingleInputs ==
    { In \o << <<99, 46, 80, 110, 103>> >>,        \* in/c.Png
      In \o << <<100, 46, 116, 120, 116>> >> }     \* in/d.txt

Webp == <<46, 119, 101, 98, 112>>           \* ".webp"
Svg  == <<46, 115, 118, 103>>               \* ".svg"

RasterFormats ==
    { <<46, 112, 110, 103>>,                \* .png
      <<46, 106, 112, 103>>,                \* .jpg
      <<46, 106, 112, 101, 103>>,           \* .jpeg
      <<46, 103, 105, 102>>,                \* .gif
      <<46, 98, 109, 112>>,                 \* .bmp
      <<46, 116, 105, 102, 102>>,           \* .tiff
      <<46, 116, 105, 102>>,                \* .tif
      <<46, 105, 99, 111>> }                \* .ico

SUPPORTED_FORMATS(svg) == IF svg THEN RasterFormats \cup {Svg} ELSE RasterFormats

\* values of --quality: the default and one on either side of 1..100
Qualities == {0, 80, 101}

\* ---------------------------------------------------------------- pathlib
Name(p) == p[Len(p)]

Parent(p) == SubSeq(p, 1, Len(p) - 1)

\* str.rfind('.') + 1, 0 when there is no dot
RFindDot(n) ==
    IF \E i \in 1..Len(n) : n[i] = 46
    THEN CHOOSE i \in 1..Len(n) : n[i] = 46 /\ \A j \in (i + 1)..Len(n) : n[j] # 46
    ELSE 0

\* PurePath.suffix : the last dot counts unless it is the first or the last
\* character of the name
Suffix(n) ==
    LET i == RFindDot(n)
    IN  IF 1 < i /\ i < Len(n) THEN SubSeq(n, i, Len(n)) ELSE << >>

Stem(n) ==
    LET i == RFindDot(n)
    IN  IF 1 < i /\ i < Len(n) THEN SubSeq(n, 1, i - 1) ELSE n

WithSuffix(p, suf) ==
    LET n == Name(p)
    IN  Parent(p) \o << SubSeq(n, 1, Len(n) - Len(Suffix(n))) \o suf >>

IsPrefix(b, p) == Len(b) <= Len(p) /\ SubSeq(p, 1, Len(b)) = b

RelativeTo(p, b) == SubSeq(p, Len(b) + 1, Len(p))

Prefixes(d) == { SubSeq(d, 1, k) : k \in 1..Len(d) }

EndsWith(n, e) == Len(e) <= Len(n) /\ SubSeq(n, Len(n) - Len(e) + 1, Len(n)) = e

\* ------------------------------------------------------------------- state
VARIABLES
    files,          \* source tree: path -> [mtime]
    outs,           \* written outputs: path -> [mtime, content, src]
    dirs,           \* directories that exist
    blocked,        \* paths taken by a regular file that is not an image
    now,            \* file-system clock
    SVG_SUPPORT,    \* cairosvg could be imported
    pc,             \* "start", "loop", "done", "exit0", "exit1", "crashed"
    args,           \* the parsed command line of the invocation
    images,         \* find_images' result
    idx,            \* position of the for loop in images
    success_count,
    fail_count,
    results,        \* what process_file returned, one record per iteration
    exitmsg,        \* the message printed before sys.exit
    rerun,          \* the program has been started again
    prevResults,    \* results of the previous invocation
    prevStart,      \* clock when the previous invocation started
    runStart,       \* clock when this invocation started
    touched         \* a source was modified since the previous invocation

vars == << files, outs, dirs, blocked, now, SVG_SUPPORT, pc, args, images, idx,
           success_count, fail_count, results, exitmsg, rerun, prevResults,
           prevStart, runStart, touched >>

\* ------------------------------------------------------------- file walker
Glob(root, recursive, ext, fs) ==
    { p \in fs : /\ IsPrefix(root, p)
                 /\ Len(p) > Len(root)
                 /\ (recursive \/ Len(p) = Len(root) + 1)
                 /\ EndsWith(Name(p), ext) }

RECURSIVE Sorted(_)
Sorted(S) ==
    IF S = {} THEN << >>
    ELSE LET m == CHOOSE x \in S : \A y \in S \ {x} : PathLess(x, y)
         IN  <<m>> \o Sorted(S \ {m})

find_images(path, recursive, fs, svg) ==
    IF path \in fs
    THEN IF LowerStr(Suffix(Name(path))) \in SUPPORTED_FORMATS(svg)
         THEN <<path>> ELSE << >>
    ELSE Sorted(UNION { Glob(path, recursive, ext, fs)
                          \cup Glob(path, recursive, UpperStr(ext), fs)
                        : ext \in SUPPORTED_FORMATS(svg) })

\* ----------------------------------------------------------- path resolver
\* a resolver and a driver that create no directory
Mkdir_Nothing(d, ds, blk) ==
    [ raises |-> \E q \in Prefixes(d) : q \in blk,
      dirs   |-> ds ]

\* Path.mkdir(parents=True, exist_ok=True)
Mkdir(d, ds, blk) ==
    [ raises |-> \E q \in Prefixes(d) : q \in blk,
      dirs   |-> ds \cup Prefixes(d) ]

\* a resolver that forgets the relative directory
get_output_path_Flat(input_path, output_dir, keep_structure, base_input, ds, blk) ==
    IF output_dir # None
    THEN [ raises |-> FALSE,
           path   |-> output_dir \o << Stem(Name(input_path)) \o Webp >>,
           dirs   |-> ds ]
    ELSE [ raises |-> FALSE, path |-> WithSuffix(input_path, Webp), dirs |-> ds ]

get_output_path(input_path, output_dir, keep_structure, base_input, ds, blk) ==
    IF output_dir # None
    THEN IF keep_structure /\ base_input # None
         THEN IF ~ IsPrefix(base_input, Parent(input_path))
              THEN [ raises |-> TRUE, path |-> None, dirs |-> ds ]
              ELSE LET relative == RelativeTo(Parent(input_path), base_input)
                       out_dir  == output_dir \o relative
                       m        == Mkdir(out_dir, ds, blk)
                   IN  [ raises |-> m.raises,
                         path   |-> out_dir \o << Stem(Name(input_path)) \o Webp >>,
                         dirs   |-> IF m.raises THEN ds ELSE m.dirs ]
         ELSE [ raises |-> FALSE,
                path   |-> output_dir \o << Stem(Name(input_path)) \o Webp >>,
                dirs   |-> ds ]
    ELSE [ raises |-> FALSE, path |-> WithSuffix(input_path, Webp), dirs |-> ds ]

\* --------------------------------------------------------------- converter
ConvResults == {"ok", "decode_error", "encode_error"}

Write(os, p, rec) == (p :> rec) @@ os

Remove(f, p) == [q \in DOMAIN f \ {p} |-> f[q]]

\* Image.open(...), convert, img.save(output_path, 'WEBP', ...).  save opens
\* the final path for writing before it encodes; when the encoder raises,
\* the library removes the file if (cleanup) it had created it.
convert_image_to_webp(image_path, output_path, r, cleanup, os, ds, t) ==
    IF r = "decode_error" \/ Parent(output_path) \notin ds
    THEN [ success |-> FALSE, outs |-> os ]
    ELSE IF r = "encode_error"
         THEN IF output_path \notin DOMAIN os /\ cleanup
              THEN [ success |-> FALSE, outs |-> os ]
              ELSE [ success |-> FALSE,
                     outs |-> Write(os, output_path,
                                    [mtime |-> t, content |-> "partial", src |-> image_path]) ]
         ELSE [ success |-> TRUE,
                outs |-> Write(os, output_path,
                               [mtime |-> t, content |-> "webp", src |-> image_path]) ]

convert_svg_to_webp(svg_path, output_path, r, cleanup, os, ds, t, svg) ==
    IF ~ svg
    THEN [ success |-> FALSE, outs |-> os ]
    ELSE convert_image_to_webp(svg_path, output_path, r, cleanup, os, ds, t)

\* ------------------------------------------------------------ process_file
\* the comparison with >= instead of >
UpToDate_OrEqual(output_path, file_path, fs, os) ==
    output_path \in DOMAIN os /\ os[output_path].mtime >= fs[file_path].mtime

\* the comparison turned around
UpToDate_Reversed(output_path, file_path, fs, os) ==
    output_path \in DOMAIN os /\ os[output_path].mtime < fs[file_path].mtime

\* output_path.exists() and output_path.stat().st_mtime > file_path.stat().st_mtime
UpToDate(output_path, file_path, fs, os) ==
    output_path \in DOMAIN os /\ os[output_path].mtime > fs[file_path].mtime

\* an unlink that does not ask whether the conversion succeeded
Unlinks_Always(success, delete_on_success, unlink_ok) ==
    delete_on_success /\ unlink_ok

\* the source is unlinked: only on success, only when requested, and the
\* unlink itself may raise (unlink_ok = FALSE)
Unlinks(success, delete_on_success, unlink_ok) ==
    success /\ delete_on_success /\ unlink_ok

Dispatch(file_path, output_path, suffix, r, cleanup, os, ds, t, svg) ==
    IF suffix = Svg
    THEN convert_svg_to_webp(file_path, output_path, r, cleanup, os, ds, t, svg)
    ELSE convert_image_to_webp(file_path, output_path, r, cleanup, os, ds, t)

\* One call of process_file.  r, cleanup and unlink_ok are what the codec and
\* the file system answer; the result carries the returned success flag, the
\* kind of message, and the file system the call leaves behind.  raises is
\* TRUE when an exception leaves the function.
process_file(file_path, output_dir, keep_structure, base_input, delete_on_success, r, cleanup, unlink_ok, fs, os, ds, blk, t, svg) ==
    LET suffix == LowerStr(Suffix(Name(file_path)))
        same   == [ raises |-> FALSE, success |-> FALSE, kind |-> "skipped",
                    out |-> None, called |-> FALSE,
                    files |-> fs, outs |-> os, dirs |-> ds ]
    IN  IF suffix \notin SUPPORTED_FORMATS(svg)
        THEN same
        ELSE LET g == get_output_path(file_path, output_dir, keep_structure,
                                      base_input, ds, blk)
             IN  IF g.raises
                 THEN [ same EXCEPT !.raises = TRUE, !.kind = "exception" ]
                 ELSE IF UpToDate(g.path, file_path, fs, os)
                      THEN [ same EXCEPT !.success = TRUE, !.kind = "already",
                                         !.out = g.path, !.dirs = g.dirs ]
                      ELSE LET c == Dispatch(file_path, g.path, suffix, r, cleanup,
                                             os, g.dirs, t, svg)
                               del == Unlinks(c.success, delete_on_success, unlink_ok)
                           IN  [ raises  |-> FALSE,
                                 success |-> c.success,
                                 kind    |-> IF ~ c.success THEN "failed"
                                             ELSE IF ~ delete_on_success THEN "converted"
                                             ELSE IF del THEN "removed"
                                             ELSE "undeleted",
                                 out     |-> g.path,
                                 called  |-> TRUE,
                                 files   |-> IF del THEN Remove(fs, file_path) ELSE fs,
                                 outs    |-> c.outs,
                                 dirs    |-> g.dirs ]

\* -------------------------------------------------------------------- main
Args ==
    { a \in [ input : {None, In} \cup SingleInputs, output : {None, Out},
              quality : Qualities, recursive : BOOLEAN,
              keep_structure : BOOLEAN, no_delete : BOOLEAN ] :
        /\ a.input = None => a.output = None
        /\ a.input # None => ~ a.no_delete }

NoArgs == [ input |-> None, output |-> None, quality |-> 80, recursive |-> FALSE,
            keep_structure |-> FALSE, no_delete |-> FALSE ]

default_mode(a) == a.input = None

InputOf(a) == IF default_mode(a) THEN In ELSE a.input

OutputOf(a) == IF default_mode(a) /\ a.output = None THEN Out ELSE a.output

delete_on_success(a) == IF default_mode(a) THEN ~ a.no_delete ELSE FALSE

base_input(a, ds) == IF InputOf(a) \in ds THEN InputOf(a) ELSE Parent(InputOf(a))

Exists(p) == p \in dirs \/ p \in DOMAIN files

\* main up to the for loop: validation, creation of the output directory,
\* discovery
Main_Start(a) ==
    LET m    == IF OutputOf(a) # None THEN Mkdir(OutputOf(a), dirs, blocked)
                ELSE [ raises |-> FALSE, dirs |-> dirs ]
        imgs == find_images(InputOf(a), a.recursive, DOMAIN files, SVG_SUPPORT)
    IN  /\ args' = a
        /\ runStart' = now
        /\ success_count' = 0
        /\ fail_count' = 0
        /\ results' = << >>
        /\ idx' = 1
        /\ UNCHANGED << files, outs, blocked, now, SVG_SUPPORT >>
        /\ IF ~ Exists(InputOf(a))
           THEN pc' = "exit1" /\ exitmsg' = "bad_input"
                /\ images' = << >> /\ dirs' = dirs
           ELSE IF ~ (1 <= a.quality /\ a.quality <= 100)
           THEN pc' = "exit1" /\ exitmsg' = "bad_quality"
                /\ images' = << >> /\ dirs' = dirs
           ELSE IF m.raises
           THEN pc' = "crashed" /\ exitmsg' = "exception"
                /\ images' = << >> /\ dirs' = dirs
           ELSE /\ dirs' = m.dirs
                /\ images' = imgs
                /\ IF imgs = << >>
                   THEN pc' = "exit0" /\ exitmsg' = "no_images"
                   ELSE pc' = "loop" /\ exitmsg' = ""

\* the program is started for the first time
Invoke ==
    /\ pc = "start"
    /\ \E a \in Args : Main_Start(a)
    /\ UNCHANGED << rerun, prevResults, prevStart, touched >>

\* one iteration of the for loop of main
Main_Loop ==
    /\ pc = "loop"
    /\ idx <= Len(images)
    /\ \E r \in ConvResults, cleanup \in BOOLEAN, unlink_ok \in BOOLEAN :
         LET p == process_file(images[idx], OutputOf(args), args.keep_structure,
                               base_input(args, dirs), delete_on_success(args),
                               r, cleanup, unlink_ok,
                               files, outs, dirs, blocked, now, SVG_SUPPORT)
         IN  IF p.raises
             THEN /\ pc' = "crashed"
                  /\ exitmsg' = "exception"
                  /\ UNCHANGED << files, outs, dirs, idx, success_count,
                                  fail_count, results >>
             ELSE /\ files' = p.files
                  /\ outs' = p.outs
                  /\ dirs' = p.dirs
                  /\ results' = Append(results,
                                  [ file |-> images[idx], success |-> p.success,
                                    kind |-> p.kind, out |-> p.out,
                                    called |-> p.called ])
                  /\ success_count' = IF p.success THEN success_count + 1
                                      ELSE success_count
                  /\ fail_count' = IF p.success THEN fail_count ELSE fail_count + 1
                  /\ idx' = idx + 1
                  /\ UNCHANGED << pc, exitmsg >>
    /\ UNCHANGED << blocked, now, SVG_SUPPORT, args, images, rerun, prevResults,
                    prevStart, runStart, touched >>

\* the lines after the loop: the summary is printed
Main_Summary ==
    /\ pc = "loop"
    /\ idx > Len(images)
    /\ pc' = "done"
    /\ exitmsg' = "summary"
    /\ UNCHANGED << files, outs, dirs, blocked, now, SVG_SUPPORT, args, images,
                    idx, success_count, fail_count, results, rerun, prevResults,
                    prevStart, runStart, touched >>

\* ------------------------------------------------------------- environment
\* the program is started again with the same command line
Reinvoke ==
    /\ pc = "done"
    /\ ~ rerun
    /\ rerun' = TRUE
    /\ prevResults' = results
    /\ prevStart' = runStart
    /\ UNCHANGED touched
    /\ Main_Start(args)

\* the clock advances; a run is short against the granularity of st_mtime, so
\* the clock is read once per run and advances between runs
Tick ==
    /\ pc = "done"
    /\ now < MaxTime
    /\ now' = now + 1
    /\ UNCHANGED << files, outs, dirs, blocked, SVG_SUPPORT, pc, args, images, idx,
                    success_count, fail_count, results, exitmsg, rerun, prevResults,
                    prevStart, runStart, touched >>

\* a source file is saved again between two invocations
Touch ==
    /\ pc = "done"
    /\ ~ rerun
    /\ ~ touched
    /\ \E f \in DOMAIN files :
         /\ files[f].mtime < now
         /\ files' = [files EXCEPT ![f].mtime = now]
    /\ touched' = TRUE
    /\ UNCHANGED << outs, dirs, blocked, now, SVG_SUPPORT, pc, args, images, idx,
                    success_count, fail_count, results, exitmsg, rerun, prevResults,
                    prevStart, runStart >>

\* Everything but the source tree, before the program is started.  A regular
\* file in the place of out/sub is only put there when a source lies in in/sub
\* (no mkdir goes there otherwise), and the import of cairosvg only fails
\* when there is an .svg source (nothing else reads SVG_SUPPORT).
InitRest ==
    /\ \E inExists \in BOOLEAN :
         /\ (DOMAIN files # {} => inExists)
         /\ dirs = IF inExists THEN {In, In \o <<Sub>>} ELSE {}
    /\ \E b \in BOOLEAN :
         /\ (b => \E f \in DOMAIN files : Len(f) > 2)
         /\ blocked = IF b THEN {Out \o <<Sub>>} ELSE {}
    /\ outs = << >>
    /\ now \in 0..1      \* the sources were saved in this clock tick, or before
    /\ SVG_SUPPORT \in BOOLEAN
    /\ (~ SVG_SUPPORT => \E f \in DOMAIN files : Suffix(Name(f)) = Svg)
    /\ pc = "start"
    /\ args = NoArgs
    /\ images = << >>
    /\ idx = 1
    /\ success_count = 0
    /\ fail_count = 0
    /\ results = << >>
    /\ exitmsg = ""
    /\ rerun = FALSE
    /\ prevResults = << >>
    /\ prevStart = now
    /\ runStart = now
    /\ touched = FALSE

Init ==
    /\ \E S \in SUBSET SrcUniverse :
         /\ Cardinality(S) <= MaxFiles
         /\ files = [p \in S |-> [mtime |-> 0]]
    /\ InitRest

InitRerun ==
    /\ \E S \in SUBSET RerunUniverse :
         /\ Cardinality(S) <= MaxFiles
         /\ files = [p \in S |-> [mtime |-> 0]]
    /\ InitRest

\* one invocation of the program
Next ==
    \/ Invoke
    \/ Main_Loop
    \/ Main_Summary
    \/ Tick

Spec == Init /\ [][Next]_vars

\* the program is run twice in a row on the tree the first run has left behind
NextRerun ==
    \/ Invoke
    \/ Main_Loop
    \/ Main_Summary
    \/ Tick
    \/ Reinvoke
    \/ Touch

SpecRerun == InitRerun /\ [][NextRerun]_vars

\* ================================================================== claims
Supported(f) == LowerStr(Suffix(Name(f))) \in SUPPORTED_FORMATS(SVG_SUPPORT)

Last(q) == q[Len(q)]

Range(q) == { q[i] : i \in 1..Len(q) }

\* the step is one completed iteration of the for loop
Iterated == idx' = idx + 1 /\ Len(results') = Len(results) + 1

\* C1: a file whose lower-cased extension is not supported is skipped, and
\* the failure counter counts failed conversions only, never a skipped file.
C1_SkippedIsNotFailed ==
    /\ \A i \in 1..Len(results) :
         ~ Supported(results[i].file) => results[i].kind = "skipped"
    /\ fail_count = Cardinality({ i \in 1..Len(results) : results[i].kind = "failed" })

\* C3: a conversion that fails writes nothing: the output files are, after
\* the failed call, exactly what they were before it.
C3_FailureWritesNothing ==
    [][ (Iterated /\ Last(results').kind = "failed") => outs' = outs ]_vars

\* C4: once validation has passed the run is never stopped by a file: no
\* exception leaves the loop, and when the summary is printed every
\* discovered file has one result, in order, and the two counters add up to
\* the number of discovered files.
C4_RunNeverStops ==
    /\ pc # "crashed"
    /\ pc = "done" =>
         /\ Len(results) = Len(images)
         /\ \A i \in 1..Len(images) : results[i].file = images[i]
         /\ success_count + fail_count = Len(images)

\* C5: in default mode without --no-delete, when the run has finished, every
\* source counted as a success is gone from the input folder and the
\* supported images that remain are as many as the reported failures.
C5_RemainingAreFailures ==
    (pc = "done" /\ args.input = None /\ ~ args.no_delete) =>
        /\ \A i \in 1..Len(results) :
             results[i].success => results[i].file \notin DOMAIN files
        /\ Cardinality({ f \in DOMAIN files : Supported(f) }) = fail_count

\* C6: a source file disappears only in an iteration of the loop that
\* processes it, in default mode without --no-delete, after the converter
\* returned success for it, and its output file then exists.
C6_DeletedOnlyAfterSuccess ==
    [][ \A f \in DOMAIN files :
          f \notin DOMAIN files' =>
            /\ args.input = None /\ ~ args.no_delete
            /\ Iterated
            /\ images[idx] = f
            /\ Last(results').called /\ Last(results').success
            /\ Last(results').out \in DOMAIN outs'
            /\ outs'[Last(results').out].content = "webp" ]_vars

C6_Witness ==
    \E i \in 1..Len(results) :
        results[i].kind = "removed" /\ results[i].file \notin DOMAIN files

C8_ParentExists ==
    \A i \in 1..Len(results) :
        results[i].out # None => Parent(results[i].out) \in dirs

\* the resolver has returned a path in a mirrored sub-directory
C8_Witness ==
    \E i \in 1..Len(results) :
        /\ results[i].out # None
        /\ Parent(results[i].out) = Out \o <<Sub>>
        /\ Parent(results[i].out) \in dirs

\* C9: for a directory, find_images returns exactly the files below it (top
\* level only unless recursive) whose extension is supported whatever its
\* case, each once, in ascending path order.
C9_WalkerCaseInsensitive ==
    (pc \in {"loop", "exit0"} /\ idx = 1 /\ (IF args.input = None THEN In ELSE args.input) \in dirs) =>
        LET root == IF args.input = None THEN In ELSE args.input
        IN  /\ Range(images) =
                 { f \in DOMAIN files :
                     /\ IsPrefix(root, f)
                     /\ (args.recursive \/ Len(f) = Len(root) + 1)
                     /\ Supported(f) }
            /\ \A i \in 1..Len(images), j \in 1..Len(images) :
                 i < j => PathLess(images[i], images[j])

\* C10 (as claimed): distinct discovered files never share an output path.
C10_DistinctOutputs ==
    \A i \in 1..Len(results), j \in 1..Len(results) :
        (i < j /\ results[i].out # None /\ results[j].out # None)
            => results[i].out # results[j].out

\* C10 (amended): two discovered files share an output path exactly when
\* they have the same stem and either the same directory or a flattened
\* output; a file that shares its output path with no other file and was
\* converted owns the file at that path.
C10_SharedOnlyBySameStem ==
    /\ \A i \in 1..Len(results), j \in 1..Len(results) :
         (i < j /\ results[i].out # None /\ results[j].out # None) =>
            ( results[i].out = results[j].out
              <=> /\ Stem(Name(results[i].file)) = Stem(Name(results[j].file))
                  /\ \/ Parent(results[i].file) = Parent(results[j].file)
                     \/ (args.input = None \/ args.output # None) /\ ~ args.keep_structure )
    /\ \A i \in 1..Len(results) :
         ( /\ results[i].called /\ results[i].success
           /\ \A j \in 1..Len(results) : j # i => results[j].out # results[i].out )
         => /\ results[i].out \in DOMAIN outs
            /\ outs[results[i].out].src = results[i].file

\* two files with one stem were resolved to two paths, and both converted
C10_Witness ==
    \E i \in 1..Len(results), j \in 1..Len(results) :
        /\ i < j
        /\ Stem(Name(results[i].file)) = Stem(Name(results[j].file))
        /\ results[i].called /\ results[i].success
        /\ results[j].called /\ results[j].success
        /\ results[i].out # results[j].out

====
